---- MODULE Spec2Model ----
(***************************************************************************)
(* A model of src/app.py: the amount codec (_parse_amount_to_cents,        *)
(* _format_amount_from_cents), the card-error classifier                   *)
(* (_status_from_card_error) and the two request handlers                  *)
(* (create_payment_intent, confirm_payment_intent).                        *)
(*                                                                         *)
(* Strings are sequences of lexemes ("1", ".", "e", "NaN", ...).  Python   *)
(* integers are unbounded, so integers and Decimal coefficients are digit  *)
(* sequences, most significant digit first.  Decimal arithmetic follows    *)
(* the default context of Python's decimal module: 28 significant digits,  *)
(* ROUND_HALF_EVEN, InvalidOperation trapped.                              *)
(***************************************************************************)
EXTENDS Integers, Sequences, FiniteSets

(***************************************************************************)
(* Bounds of the model.                                                    *)
(***************************************************************************)
\* longest amount string (in lexemes) given to the codec alone
MaxLen == 4
\* longest amount string (in lexemes) in a request body
MaxAmountLen == 2
\* integers given to _format_amount_from_cents are m * 10^z, m <= MaxMantissa
MaxMantissa == 12
\* ... and z <= MaxShift
MaxShift == 28

(***************************************************************************)
(* The default decimal context (from decimal import Decimal).              *)
(***************************************************************************)
Prec == 28
Emax == 999999

(***************************************************************************)
(* Digits and digit sequences.                                             *)
(***************************************************************************)
DigitChars == <<"0", "1", "2", "3", "4", "5", "6", "7", "8", "9">>

IsDigit(c) == \E i \in 1..10 : DigitChars[i] = c

DigitVal(c) == (CHOOSE i \in 1..10 : DigitChars[i] = c) - 1

Zeros(n) == [i \in 1..n |-> 0]

IsZero(ds) == \A i \in 1..Len(ds) : ds[i] = 0

\* the digits of an integer without leading zeros; <<0>> for zero (str(int(x)))
StripZeros(ds) ==
    LET nz == {i \in 1..Len(ds) : ds[i] # 0}
    IN  IF nz = {} THEN <<0>>
        ELSE SubSeq(ds, CHOOSE i \in nz : \A j \in nz : i <= j, Len(ds))

RECURSIVE Incr(_)
\* ds + 1
Incr(ds) ==
    IF ds = <<>> THEN <<1>>
    ELSE IF ds[Len(ds)] < 9
         THEN SubSeq(ds, 1, Len(ds) - 1) \o <<ds[Len(ds)] + 1>>
         ELSE Incr(SubSeq(ds, 1, Len(ds) - 1)) \o <<0>>

RECURSIVE NatOfDigits(_)
\* the value of a short digit sequence (exponents only)
NatOfDigits(ds) ==
    IF ds = <<>> THEN 0
    ELSE 10 * NatOfDigits(SubSeq(ds, 1, Len(ds) - 1)) + ds[Len(ds)]

RECURSIVE DigitsOfNat(_)
DigitsOfNat(n) ==
    IF n < 10 THEN <<n>> ELSE DigitsOfNat(n \div 10) \o <<n % 10>>

(***************************************************************************)
(* Decimal values: sign, coefficient, exponent, or a special value.        *)
(***************************************************************************)
Dec(sign, int, exp) == [special |-> "finite", sign |-> sign, int |-> int, exp |-> exp]

SpecialDec(special, sign, diag) == [special |-> special, sign |-> sign, int |-> diag, exp |-> 0]

\* a successful operation, and one that raised the exception exc
Ok(v) == [ok |-> TRUE, val |-> v, exc |-> "", msg |-> ""]

Raise(exc, msg) == [ok |-> FALSE, val |-> Dec(0, <<0>>, 0), exc |-> exc, msg |-> msg]

\* ROUND_HALF_EVEN of a coefficient that loses its last k digits
\* (Decimal._rescale / _round_half_even; k > Len(ds) leaves a nonzero rest below half)
RoundDrop(ds, k) ==
    LET n    == Len(ds)
        kept == IF k >= n THEN <<>> ELSE SubSeq(ds, 1, n - k)
        rest == IF k > n THEN <<0, 1>> ELSE SubSeq(ds, n - k + 1, n)
        half == rest # <<>> /\ rest[1] = 5 /\ IsZero(SubSeq(rest, 2, Len(rest)))
        even == kept = <<>> \/ kept[Len(kept)] % 2 = 0
        up   == rest # <<>> /\ rest[1] >= 5 /\ ~(half /\ even)
    IN  IF up THEN StripZeros(Incr(kept)) ELSE StripZeros(kept)

\* Decimal._fix: round a result to the context precision
Fix(d) ==
    IF Len(d.int) <= Prec THEN d
    ELSE LET k == Len(d.int) - Prec
             c == RoundDrop(d.int, k)
         IN  IF Len(c) > Prec
             THEN Dec(d.sign, SubSeq(c, 1, Len(c) - 1), d.exp + k + 1)
             ELSE Dec(d.sign, c, d.exp + k)

(***************************************************************************)
(* Python integers: a sign and the digits of the magnitude.                *)
(***************************************************************************)
PyInt(sign, digits) == [sign |-> sign, digits |-> digits]

\* Decimal(n) for an integer n: exact, whatever its length
DecOfInt(n) == Dec(n.sign, n.digits, 0)

\* int(d): truncation towards zero (Decimal.__int__)
ToInt(d) ==
    IF d.exp >= 0 THEN PyInt(d.sign, StripZeros(d.int \o Zeros(d.exp)))
    ELSE IF -d.exp >= Len(d.int) THEN PyInt(d.sign, <<0>>)
    ELSE PyInt(d.sign, SubSeq(d.int, 1, Len(d.int) + d.exp))

(***************************************************************************)
(* Decimal(amount_raw): the constructor, on each type a JSON value gives.  *)
(***************************************************************************)
\* the number of digit lexemes s starts with
LeadDigits(s) == Cardinality({k \in 1..Len(s) : \A j \in 1..k : IsDigit(s[j])})

DigitsOf(s) == [i \in 1..Len(s) |-> DigitVal(s[i])]

\* the exponent: [sign] digits, to the end of the string
DecimalWithExponent(sign, coeff, nFrac, e) ==
    LET signed == e # <<>> /\ e[1] \in {"-", "+"}
        digits == IF signed THEN Tail(e) ELSE e
    IN  IF digits = <<>> \/ LeadDigits(digits) # Len(digits)
        THEN Raise("InvalidOperation", "")
        ELSE IF signed /\ e[1] = "-"
        THEN Ok(Dec(sign, StripZeros(coeff), 0 - NatOfDigits(DigitsOf(digits)) - nFrac))
        ELSE Ok(Dec(sign, StripZeros(coeff), NatOfDigits(DigitsOf(digits)) - nFrac))

\* the digits are read; rest is what follows them: nothing, or e and an exponent
DecimalOfDigits(sign, int, frac, rest) ==
    IF int = <<>> /\ frac = <<>> THEN Raise("InvalidOperation", "")
    ELSE IF rest = <<>> THEN Ok(Dec(sign, StripZeros(DigitsOf(int \o frac)), 0 - Len(frac)))
    ELSE IF rest[1] \in {"e", "E"}
    THEN DecimalWithExponent(sign, DigitsOf(int \o frac), Len(frac), Tail(rest))
    ELSE Raise("InvalidOperation", "")

\* after the integer digits: an optional point and fraction digits
DecimalOfFraction(sign, int, rest) ==
    IF rest # <<>> /\ rest[1] = "."
    THEN DecimalOfDigits(sign, int, SubSeq(rest, 2, 1 + LeadDigits(Tail(rest))),
                         SubSeq(rest, 2 + LeadDigits(Tail(rest)), Len(rest)))
    ELSE DecimalOfDigits(sign, int, <<>>, rest)

\* the string after its sign
DecimalOfBody(sign, body) ==
    IF body \in {<<"Inf">>, <<"Infinity">>}
    THEN Ok(SpecialDec("Inf", sign, <<0>>))
    ELSE IF body # <<>> /\ body[1] \in {"NaN", "sNaN"} /\ LeadDigits(Tail(body)) = Len(body) - 1
    THEN Ok(SpecialDec(body[1], sign, DigitsOf(Tail(body))))
    ELSE DecimalOfFraction(sign, SubSeq(body, 1, LeadDigits(body)),
                           SubSeq(body, LeadDigits(body) + 1, Len(body)))

\* [sign] (digits [. digits] | . digits) [e [sign] digits] | [sign] Inf | [sign] [s]NaN digits
\* anything else is a ConversionSyntax error, an InvalidOperation
DecimalOfString(s) ==
    IF s # <<>> /\ s[1] \in {"-", "+"}
    THEN DecimalOfBody(IF s[1] = "-" THEN 1 ELSE 0, Tail(s))
    ELSE DecimalOfBody(0, s)

\* a JSON value of the request body: a string, null or an absent key, a number
\* (dec is the exact value Decimal gives a number), a list, an object
Raw(type, toks, dec) == [type |-> type, toks |-> toks, dec |-> dec]

DecimalOf(raw) ==
    CASE raw.type = "str"   -> DecimalOfString(raw.toks)
      [] raw.type = "int"   -> Ok(raw.dec)
      [] raw.type = "float" -> Ok(raw.dec)
      [] raw.type = "list"  -> Raise("ValueError", "argument must be a sequence of length 3")
      [] OTHER              -> Raise("TypeError", "")

(***************************************************************************)
(* Decimal.quantize(Decimal("0.01")) in the default context.               *)
(***************************************************************************)
\* the rescaled value, unless it has more digits than the context precision
QuantizeResult(ans) ==
    IF Len(ans.int) > Prec THEN Raise("InvalidOperation", "") ELSE Ok(ans)

Quantize(d) ==
    IF d.special = "NaN" THEN Ok(d)
    ELSE IF d.special # "finite" THEN Raise("InvalidOperation", "")
    ELSE IF IsZero(d.int) THEN Ok(Dec(d.sign, <<0>>, -2))
    ELSE IF d.exp + Len(d.int) - 1 > Emax \/ d.exp + Len(d.int) - 1 + 2 + 1 > Prec
    THEN Raise("InvalidOperation", "")
    ELSE IF d.exp >= -2
    THEN QuantizeResult(Dec(d.sign, d.int \o Zeros(d.exp + 2), -2))
    ELSE QuantizeResult(Dec(d.sign, RoundDrop(d.int, -2 - d.exp), -2))

\* amount * 100 in the default context
Mul100(d) ==
    Fix(Dec(d.sign, StripZeros(d.int \o <<0, 0>>), d.exp))

(***************************************************************************)
(* _parse_amount_to_cents                                                  *)
(***************************************************************************)
Cents(n) == [ok |-> TRUE, cents |-> n, exc |-> "", msg |-> ""]

ParseError(exc, msg) == [ok |-> FALSE, cents |-> PyInt(0, <<0>>), exc |-> exc, msg |-> msg]

\* line 37 raised: InvalidOperation and TypeError become ValueError("Invalid amount.")
ParseRaised(e) ==
    IF e.exc \in {"InvalidOperation", "TypeError"}
    THEN ParseError("ValueError", "Invalid amount.")
    ELSE ParseError(e.exc, e.msg)

\* lines 40-42, outside the try: amount <= 0 on a NaN raises InvalidOperation
CentsOfAmount(amount) ==
    IF amount.special = "NaN" THEN ParseError("InvalidOperation", "")
    ELSE IF amount.sign = 1 \/ IsZero(amount.int)
    THEN ParseError("ValueError", "Amount must be greater than zero.")
    ELSE Cents(ToInt(Mul100(amount)))

ParseQuantized(q) == IF q.ok THEN CentsOfAmount(q.val) ELSE ParseRaised(q)

ParseDecimal(d) == IF d.ok THEN ParseQuantized(Quantize(d.val)) ELSE ParseRaised(d)

ParseAmountToCents(amount_raw) == ParseDecimal(DecimalOf(amount_raw))

(***************************************************************************)
(* _format_amount_from_cents                                               *)
(***************************************************************************)
RECURSIVE TrimZeros(_, _)
\* Decimal.__truediv__ on an exact quotient: towards the ideal exponent 0
TrimZeros(ds, exp) ==
    IF exp < 0 /\ Len(ds) > 1 /\ ds[Len(ds)] = 0
    THEN TrimZeros(SubSeq(ds, 1, Len(ds) - 1), exp + 1)
    ELSE Dec(0, ds, exp)

\* Decimal(amount_cents) / Decimal("100") in the default context
Div100(d) ==
    LET shift == 3 - Len(d.int) + Prec + 1
        t     == IF shift >= 0 THEN d.int \o Zeros(shift) ELSE d.int
        drop  == IF shift >= 0 THEN 2 ELSE 2 - shift
        quot  == IF Len(t) <= drop THEN <<0>> ELSE SubSeq(t, 1, Len(t) - drop)
        rem   == IF Len(t) <= drop THEN t ELSE SubSeq(t, Len(t) - drop + 1, Len(t))
        coeff == IF ~IsZero(rem) /\ quot[Len(quot)] % 5 = 0 THEN Incr(quot) ELSE quot
        exact == TrimZeros(coeff, 0 - shift)
    IN  IF IsZero(d.int) THEN Dec(d.sign, <<0>>, 0)
        ELSE IF IsZero(rem) THEN Fix(Dec(d.sign, exact.int, exact.exp))
        ELSE Fix(Dec(d.sign, coeff, 0 - shift))

\* a faulty variant of Format2f: the fraction is not padded to two digits
Format2fUnpadded(d) ==
    LET ds   == IF IsZero(d.int) THEN <<0>>
                ELSE IF d.exp >= -2 THEN d.int \o Zeros(d.exp + 2)
                ELSE RoundDrop(d.int, -2 - d.exp)
        n    == Len(ds)
        int  == IF n <= 2 THEN <<0>> ELSE SubSeq(ds, 1, n - 2)
        frac == IF n <= 2 THEN ds ELSE SubSeq(ds, n - 1, n)
        str(x) == [i \in 1..Len(x) |-> DigitChars[x[i] + 1]]
    IN  (IF d.sign = 1 THEN <<"-">> ELSE <<>>) \o str(int) \o <<".">> \o str(frac)

\* f"{amount:.2f}": rescale to two places (ROUND_HALF_EVEN), then render
Format2f(d) ==
    LET ds   == IF IsZero(d.int) THEN <<0>>
                ELSE IF d.exp >= -2 THEN d.int \o Zeros(d.exp + 2)
                ELSE RoundDrop(d.int, -2 - d.exp)
        n    == Len(ds)
        int  == IF n <= 2 THEN <<0>> ELSE SubSeq(ds, 1, n - 2)
        frac == IF n <= 2 THEN Zeros(2 - n) \o ds ELSE SubSeq(ds, n - 1, n)
        str(x) == [i \in 1..Len(x) |-> DigitChars[x[i] + 1]]
    IN  (IF d.sign = 1 THEN <<"-">> ELSE <<>>) \o str(int) \o <<".">> \o str(frac)

FormatAmountFromCents(amount_cents) ==
    Format2f(Div100(DecOfInt(amount_cents)))

(***************************************************************************)
(* _status_from_card_error                                                 *)
(***************************************************************************)
\* None, for a field of the request body or an attribute that is absent
None == "<None>"

\* Python truthiness of an optional string
Falsy(v) == v \in {None, ""}

\* a stripe.error.CardError: its code, the code of its error object, its user_message
CardError(code, inner_code, user_message) ==
    [code |-> code, inner_code |-> inner_code, user_message |-> user_message]

\* a faulty variant of StatusFromCardError: "insufficient_funds" is forgotten
StatusFromCardErrorCvcOnly(error) ==
    LET code == IF ~Falsy(error.code) THEN error.code ELSE error.inner_code
    IN  IF code = "incorrect_cvc" THEN "live" ELSE "false"

StatusFromCardError(error) ==
    LET code == IF ~Falsy(error.code) THEN error.code ELSE error.inner_code
    IN  IF code = "incorrect_cvc" THEN "live"
        ELSE IF code = "insufficient_funds" THEN "live"
        ELSE "false"

(***************************************************************************)
(* The inputs.                                                             *)
(***************************************************************************)
Alphabet == {"0", "1", "5", "9", ".", "-", "e", "NaN", "Inf"}

StringsUpTo(n) == UNION {[1..k -> Alphabet] : k \in 0..n}

ZeroDec == Dec(0, <<0>>, 0)

Str(toks) == Raw("str", toks, ZeroDec)

\* JSON values that are not strings: null, 0, 1 (or true), 10, 10.5, 0.125, NaN,
\* Infinity, a list, an object
NonStrings ==
    {Raw("none", <<>>, ZeroDec), Raw("list", <<>>, ZeroDec), Raw("dict", <<>>, ZeroDec),
     Raw("int", <<>>, Dec(0, <<0>>, 0)), Raw("int", <<>>, Dec(0, <<1>>, 0)),
     Raw("int", <<>>, Dec(0, <<1, 0>>, 0)),
     Raw("float", <<>>, Dec(0, <<1, 0, 5>>, -1)), Raw("float", <<>>, Dec(0, <<1, 2, 5>>, -3)),
     Raw("float", <<>>, SpecialDec("NaN", 0, <<>>)), Raw("float", <<>>, SpecialDec("Inf", 0, <<>>))}

\* strings outside the alphabet or longer than the bound: the examples of the
\* documentation and the edge of the context precision
SampleStrings ==
    {Str(<<"sNaN">>), Str(<<"+", "1">>), Str(<<"Infinity">>),
     Str(<<"9", ".", "9", "9", "9">>), Str(<<"0", ".", "0", "0", "4">>),
     Str(<<"2", "5", ".", "0", "0">>), Str(<<"1", "2", ".", "3", "4">>),
     Str(<<"1", "e", "2", "5">>), Str(<<"1", "e", "2", "6">>)}

CodecAmounts == {Str(s) : s \in StringsUpTo(MaxLen)} \cup SampleStrings \cup NonStrings

RequestAmounts == {Str(s) : s \in StringsUpTo(MaxAmountLen)} \cup SampleStrings \cup NonStrings

\* integers m * 10^z, and three of no such shape
CodecCents ==
    {PyInt(0, DigitsOfNat(m) \o Zeros(z)) : m \in 1..MaxMantissa, z \in 0..MaxShift}
        \cup {PyInt(0, <<9, 9>>), PyInt(0, <<1, 2, 3, 4>>), PyInt(0, <<2, 5, 0, 0>>)}

ErrorCodes == {None, "", "incorrect_cvc", "insufficient_funds", "card_declined"}

InnerCodes == {None, "incorrect_cvc", "card_declined"}

UserMessages == {<<"Your card was declined.">>, <<"Your card has insufficient funds.">>}

CardErrors ==
    {CardError(c, i, m) : c \in ErrorCodes, i \in InnerCodes, m \in UserMessages}

(***************************************************************************)
(* The state.                                                              *)
(***************************************************************************)
VARIABLES
    trail,         \* the codec alone: an input and the values computed from it
    api_key,       \* stripe.api_key, set once from config.STRIPE_SECRET_KEY
    pc,            \* the handler's position
    req,           \* the request: its route and its JSON body
    amount_cents,  \* create_payment_intent's local amount_cents
    parse_calls,   \* how often this request called _parse_amount_to_cents
    calls,         \* the calls this request made to the processor
    reply,         \* what the processor call returned or raised
    resp           \* the response, or the exception that left the handler

vars == <<trail, api_key, pc, req, amount_cents, parse_calls, calls, reply, resp>>

handler_vars == <<api_key, pc, req, amount_cents, parse_calls, calls, reply, resp>>

NoError == CardError(None, None, <<>>)

Item(kind, raw, cents, err, label, msg) ==
    [kind |-> kind, raw |-> raw, cents |-> cents, err |-> err, label |-> label, msg |-> msg]

NoInt == PyInt(0, <<0>>)

RawItem(raw) == Item("raw", raw, NoInt, NoError, "", "")

CentsItem(n) == Item("cents", Str(<<>>), n, NoError, "", "")

ErrorItem(exc, msg) == Item("raised", Str(<<>>), NoInt, NoError, exc, msg)

CardErrorItem(e) == Item("card_error", Str(<<>>), NoInt, e, "", "")

LabelItem(l) == Item("label", Str(<<>>), NoInt, NoError, l, "")

Last(s) == s[Len(s)]

(***************************************************************************)
(* The request, the processor's reply and the response.                    *)
(***************************************************************************)
\* request.get_json(silent=True) or {}: a JSON object with its fields (an absent or
\* invalid body is the object without fields), or a JSON value that is no object
Body(object, amount, payment_method_id, email, payment_intent_id) ==
    [object |-> object, amount |-> amount, payment_method_id |-> payment_method_id,
     email |-> email, payment_intent_id |-> payment_intent_id]

NonObjectBody == Body(FALSE, Raw("none", <<>>, ZeroDec), None, None, None)

CreateBodies ==
    {Body(TRUE, a, p, e, None) :
        a \in RequestAmounts, p \in {None, "", "pm_test"}, e \in {None, "", "a@b.com"}}
        \cup {NonObjectBody}

ConfirmBodies ==
    {Body(TRUE, Raw("none", <<>>, ZeroDec), None, None, i) : i \in {None, "", "pi_1"}}
        \cup {NonObjectBody}

Request(route, data) == [route |-> route, data |-> data]

Requests ==
    {Request("create", b) : b \in CreateBodies} \cup {Request("confirm", b) : b \in ConfirmBodies}

NoRequest == Request("none", NonObjectBody)

\* a call of the processor: stripe.PaymentIntent.create(...) or .confirm(id)
CreateCall(amount, payment_method, receipt_email) ==
    [op |-> "create", amount |-> amount, currency |-> "usd", payment_method |-> payment_method,
     receipt_email |-> receipt_email, confirm |-> TRUE, id |-> None]

ConfirmCall(id) ==
    [op |-> "confirm", amount |-> NoInt, currency |-> None, payment_method |-> None,
     receipt_email |-> None, confirm |-> FALSE, id |-> id]

\* the processor's reply: a PaymentIntent, a CardError, or any other exception
Reply(kind, status, amount, error) ==
    [kind |-> kind, status |-> status, id |-> "pi_1", client_secret |-> "pi_1_secret",
     amount |-> amount, error |-> error]

NoReply == Reply("none", "", NoInt, NoError)

IntentStatuses == {"requires_action", "succeeded", "requires_capture"}

IntentAmounts ==
    {PyInt(0, <<1>>), PyInt(0, <<5, 0>>), PyInt(0, <<1, 2, 3, 4>>), PyInt(0, <<2, 5, 0, 0>>)}

Intents == {Reply("intent", s, a, NoError) : s \in IntentStatuses, a \in IntentAmounts}

\* jsonify(body), code; or an exception that leaves the handler
Response(code, body) == [kind |-> "response", code |-> code, body |-> body, exc |-> ""]

Raised(exc) == [kind |-> "raised", code |-> 0, body |-> [none |-> TRUE], exc |-> exc]

NoResponse == [kind |-> "none", code |-> 0, body |-> [none |-> TRUE], exc |-> ""]

RequiresActionBody(intent) ==
    [status |-> "requires_action", payment_intent_id |-> intent.id,
     client_secret |-> intent.client_secret]

SuccessBody(intent, cents) ==
    [status |-> "true",
     message |-> <<"your donation sucessfull ">> \o FormatAmountFromCents(cents),
     payment_intent_id |-> intent.id, client_secret |-> intent.client_secret]

\* a faulty variant of CardErrorBody: the decline is not classified
CardErrorBodyUnclassified(exc) ==
    [status |-> "false", message |-> exc.user_message]

CardErrorBody(exc) ==
    [status |-> StatusFromCardError(exc), message |-> exc.user_message]

(***************************************************************************)
(* The server: one request at a time, each handled from start to end.      *)
(***************************************************************************)
Receive ==
    /\ pc = "idle"
    /\ \E r \in Requests :
          /\ req' = r
          /\ pc' = IF r.route = "create" THEN "create_read" ELSE "confirm_read"
    /\ UNCHANGED <<trail, api_key, amount_cents, parse_calls, calls, reply, resp>>

\* the response is sent; nothing of the request is kept
Finish ==
    /\ pc = "done"
    /\ pc' = "idle"
    /\ req' = NoRequest
    /\ amount_cents' = NoInt
    /\ parse_calls' = 0
    /\ calls' = <<>>
    /\ reply' = NoReply
    /\ resp' = NoResponse
    /\ UNCHANGED <<trail, api_key>>

\* data.get(...) on a body that is no object raises AttributeError
CreateReadBody ==
    /\ pc = "create_read"
    /\ IF req.data.object
       THEN pc' = "create_check_key" /\ resp' = resp
       ELSE pc' = "done" /\ resp' = Raised("AttributeError")
    /\ UNCHANGED <<trail, api_key, req, amount_cents, parse_calls, calls, reply>>

\* a faulty variant of CreateCheckKey: payment_method_id is checked before the secret
CreateCheckKeyLate ==
    /\ pc = "create_check_key"
    /\ IF Falsy(req.data.payment_method_id)
       THEN pc' = "done" /\ resp' = Response(400, [error |-> "Payment method is required."])
       ELSE IF Falsy(api_key)
       THEN pc' = "done" /\ resp' = Response(500, [error |-> "Stripe secret key not set."])
       ELSE pc' = "create_check_method" /\ resp' = resp
    /\ UNCHANGED <<trail, api_key, req, amount_cents, parse_calls, calls, reply>>

CreateCheckKey ==
    /\ pc = "create_check_key"
    /\ IF Falsy(api_key)
       THEN pc' = "done" /\ resp' = Response(500, [error |-> "Stripe secret key not set."])
       ELSE pc' = "create_check_method" /\ resp' = resp
    /\ UNCHANGED <<trail, api_key, req, amount_cents, parse_calls, calls, reply>>

CreateCheckMethod ==
    /\ pc = "create_check_method"
    /\ IF Falsy(req.data.payment_method_id)
       THEN pc' = "done" /\ resp' = Response(400, [error |-> "Payment method is required."])
       ELSE pc' = "create_parse" /\ resp' = resp
    /\ UNCHANGED <<trail, api_key, req, amount_cents, parse_calls, calls, reply>>

\* try: amount_cents = _parse_amount_to_cents(amount_raw); except ValueError: 400
CreateParseAmount ==
    /\ pc = "create_parse"
    /\ parse_calls' = parse_calls + 1
    /\ LET r == ParseAmountToCents(req.data.amount)
       IN  IF r.ok
           THEN pc' = "create_call" /\ amount_cents' = r.cents /\ resp' = resp
           ELSE IF r.exc = "ValueError"
           THEN /\ pc' = "done"
                /\ amount_cents' = amount_cents
                /\ resp' = Response(400, [status |-> "false", message |-> <<r.msg>>])
           ELSE /\ pc' = "done"
                /\ amount_cents' = amount_cents
                /\ resp' = Raised(r.exc)
    /\ UNCHANGED <<trail, api_key, req, calls, reply>>

CreateCallProcessor ==
    /\ pc = "create_call"
    /\ calls' = Append(calls, CreateCall(amount_cents, req.data.payment_method_id,
                                         IF Falsy(req.data.email) THEN None ELSE req.data.email))
    /\ pc' = "create_called"
    /\ UNCHANGED <<trail, api_key, req, amount_cents, parse_calls, reply, resp>>

\* a faulty variant of CreateRespond: the message shows the amount the processor reports
CreateRespondReported ==
    /\ pc = "create_result"
    /\ resp' = CASE reply.kind = "intent" ->
                      IF reply.status = "requires_action"
                      THEN Response(200, RequiresActionBody(reply))
                      ELSE Response(200, SuccessBody(reply, reply.amount))
                 [] reply.kind = "card_error" -> Response(402, CardErrorBody(reply.error))
                 [] OTHER ->
                      Response(500, [status |-> "false",
                                     message |-> <<"Unable to create payment intent.">>])
    /\ pc' = "done"
    /\ UNCHANGED <<trail, api_key, req, amount_cents, parse_calls, calls, reply>>

\* a faulty variant of CreateRespond: a failed call is made once more
CreateRespondRetrying ==
    /\ pc = "create_result"
    /\ IF reply.kind = "exception" /\ Len(calls) < 2
       THEN /\ calls' = Append(calls, calls[1])
            /\ pc' = "create_called"
            /\ resp' = resp
       ELSE /\ calls' = calls
            /\ pc' = "done"
            /\ resp' = CASE reply.kind = "intent" ->
                              IF reply.status = "requires_action"
                              THEN Response(200, RequiresActionBody(reply))
                              ELSE Response(200, SuccessBody(reply, amount_cents))
                         [] reply.kind = "card_error" ->
                              Response(402, CardErrorBody(reply.error))
                         [] OTHER ->
                              Response(500, [status |-> "false",
                                             message |-> <<"Unable to create payment intent.">>])
    /\ UNCHANGED <<trail, api_key, req, amount_cents, parse_calls, reply>>

CreateRespond ==
    /\ pc = "create_result"
    /\ resp' = CASE reply.kind = "intent" ->
                      IF reply.status = "requires_action"
                      THEN Response(200, RequiresActionBody(reply))
                      ELSE Response(200, SuccessBody(reply, amount_cents))
                 [] reply.kind = "card_error" -> Response(402, CardErrorBody(reply.error))
                 [] OTHER ->
                      Response(500, [status |-> "false",
                                     message |-> <<"Unable to create payment intent.">>])
    /\ pc' = "done"
    /\ UNCHANGED <<trail, api_key, req, amount_cents, parse_calls, calls, reply>>

ConfirmReadBody ==
    /\ pc = "confirm_read"
    /\ IF req.data.object
       THEN pc' = "confirm_check_id" /\ resp' = resp
       ELSE pc' = "done" /\ resp' = Raised("AttributeError")
    /\ UNCHANGED <<trail, api_key, req, amount_cents, parse_calls, calls, reply>>

ConfirmCheckId ==
    /\ pc = "confirm_check_id"
    /\ IF Falsy(req.data.payment_intent_id)
       THEN /\ pc' = "done"
            /\ resp' = Response(400, [status |-> "false",
                                      message |-> <<"Payment intent id is required.">>])
       ELSE pc' = "confirm_call" /\ resp' = resp
    /\ UNCHANGED <<trail, api_key, req, amount_cents, parse_calls, calls, reply>>

ConfirmCallProcessor ==
    /\ pc = "confirm_call"
    /\ calls' = Append(calls, ConfirmCall(req.data.payment_intent_id))
    /\ pc' = "confirm_called"
    /\ UNCHANGED <<trail, api_key, req, amount_cents, parse_calls, reply, resp>>

ConfirmRespond ==
    /\ pc = "confirm_result"
    /\ resp' = CASE reply.kind = "intent" ->
                      IF reply.status = "requires_action"
                      THEN Response(200, RequiresActionBody(reply))
                      ELSE Response(200, SuccessBody(reply, reply.amount))
                 [] reply.kind = "card_error" -> Response(402, CardErrorBody(reply.error))
                 [] OTHER ->
                      Response(500, [status |-> "false",
                                     message |-> <<"Unable to confirm payment intent.">>])
    /\ pc' = "done"
    /\ UNCHANGED <<trail, api_key, req, amount_cents, parse_calls, calls, reply>>

(***************************************************************************)
(* The processor: the call returns a PaymentIntent, raises a CardError, or *)
(* raises another exception.                                               *)
(***************************************************************************)
Called == pc \in {"create_called", "confirm_called"}

ResultPc == IF pc = "create_called" THEN "create_result" ELSE "confirm_result"

ProcessorReturns ==
    /\ Called
    /\ \E i \in Intents : reply' = i
    /\ pc' = ResultPc
    /\ UNCHANGED <<trail, api_key, req, amount_cents, parse_calls, calls, resp>>

ProcessorRaisesCardError ==
    /\ Called
    /\ \E e \in CardErrors : reply' = Reply("card_error", "", NoInt, e)
    /\ pc' = ResultPc
    /\ UNCHANGED <<trail, api_key, req, amount_cents, parse_calls, calls, resp>>

ProcessorFails ==
    /\ Called
    /\ reply' = Reply("exception", "", NoInt, NoError)
    /\ pc' = ResultPc
    /\ UNCHANGED <<trail, api_key, req, amount_cents, parse_calls, calls, resp>>

Init ==
    /\ trail = <<>>
    /\ api_key \in {None, "", "sk_test"}
    /\ pc = "idle"
    /\ req = NoRequest
    /\ amount_cents = NoInt
    /\ parse_calls = 0
    /\ calls = <<>>
    /\ reply = NoReply
    /\ resp = NoResponse

Next ==
    \/ Receive
    \/ Finish
    \/ CreateReadBody
    \/ CreateCheckKey
    \/ CreateCheckMethod
    \/ CreateParseAmount
    \/ CreateCallProcessor
    \/ CreateRespond
    \/ ConfirmReadBody
    \/ ConfirmCheckId
    \/ ConfirmCallProcessor
    \/ ConfirmRespond
    \/ ProcessorReturns
    \/ ProcessorRaisesCardError
    \/ ProcessorFails

Spec == Init /\ [][Next]_vars

(***************************************************************************)
(* The codec and the classifier alone: an input, then the functions on it. *)
(***************************************************************************)
CodecParse ==
    /\ trail # <<>> /\ Len(trail) < 3
    /\ Last(trail).kind = "raw"
    /\ LET r == ParseAmountToCents(Last(trail).raw)
       IN  trail' = Append(trail, IF r.ok THEN CentsItem(r.cents) ELSE ErrorItem(r.exc, r.msg))
    /\ UNCHANGED handler_vars

CodecFormat ==
    /\ trail # <<>> /\ Len(trail) < 3
    /\ Last(trail).kind = "cents"
    /\ trail' = Append(trail, RawItem(Str(FormatAmountFromCents(Last(trail).cents))))
    /\ UNCHANGED handler_vars

CodecClassify ==
    /\ trail # <<>> /\ Len(trail) < 3
    /\ Last(trail).kind = "card_error"
    /\ trail' = Append(trail, LabelItem(StatusFromCardError(Last(trail).err)))
    /\ UNCHANGED handler_vars

InitCodec ==
    /\ trail \in {<<RawItem(r)>> : r \in CodecAmounts}
                    \cup {<<CentsItem(c)>> : c \in CodecCents}
                    \cup {<<CardErrorItem(e)>> : e \in CardErrors}
    /\ api_key = None
    /\ pc = "codec"
    /\ req = NoRequest
    /\ amount_cents = NoInt
    /\ parse_calls = 0
    /\ calls = <<>>
    /\ reply = NoReply
    /\ resp = NoResponse

NextCodec == CodecParse \/ CodecFormat \/ CodecClassify

SpecCodec == InitCodec /\ [][NextCodec]_vars

(***************************************************************************)
(* The documented behaviour of the codec, stated on values: what a decimal *)
(* string denotes, rounded to two places without a bound on its length.    *)
(***************************************************************************)
\* the input denotes a finite decimal number
RefValid(raw) == DecimalOf(raw).ok /\ DecimalOf(raw).val.special = "finite"

\* the value times 100, rounded to an integer (ties to even, as quantize rounds)
RefRounded(d) ==
    IF IsZero(d.int) THEN <<0>>
    ELSE IF d.exp >= -2 THEN d.int \o Zeros(d.exp + 2)
    ELSE RoundDrop(d.int, -2 - d.exp)

\* empty or missing, no valid decimal, or a value that rounds to <= 0
RefRejects(raw) ==
    \/ ~RefValid(raw)
    \/ DecimalOf(raw).val.sign = 1
    \/ IsZero(RefRounded(DecimalOf(raw).val))

\* the value has no nonzero digit beyond the second fractional digit
RefRepresentable(d) ==
    \/ d.exp >= -2
    \/ /\ -2 - d.exp < Len(d.int)
       /\ IsZero(SubSeq(d.int, Len(d.int) + d.exp + 3, Len(d.int)))

\* the value times 100, for a representable value
RefExactCents(d) ==
    IF d.exp >= -2 THEN d.int \o Zeros(d.exp + 2)
    ELSE SubSeq(d.int, 1, Len(d.int) + d.exp + 2)

\* an integer count of cents rendered with exactly two fractional digits
RefRender(ds) ==
    [i \in 1..(IF Len(ds) <= 2 THEN 4 ELSE Len(ds) + 1) |->
        IF Len(ds) <= 2
        THEN IF i = 1 THEN "0"
             ELSE IF i = 2 THEN "."
             ELSE IF i - 2 <= 2 - Len(ds) THEN "0"
             ELSE DigitChars[ds[i - 2 - (2 - Len(ds))] + 1]
        ELSE IF i <= Len(ds) - 2 THEN DigitChars[ds[i] + 1]
             ELSE IF i = Len(ds) - 1 THEN "."
             ELSE DigitChars[ds[i - 1] + 1]]

\* a valid decimal string with a value > 0 that two decimal places represent exactly
RoundTripInput(raw) ==
    /\ raw.type = "str"
    /\ RefValid(raw)
    /\ DecimalOf(raw).val.sign = 0
    /\ ~IsZero(DecimalOf(raw).val.int)
    /\ RefRepresentable(DecimalOf(raw).val)

\* the value is below 10^26: its two-place form fits the context precision
FitsContext(d) == d.exp + Len(d.int) <= Prec - 2

(***************************************************************************)
(* The claims about the codec and the classifier (under SpecCodec).        *)
(***************************************************************************)
ParsedOk(i) == trail[i + 1].kind = "cents"

ParsedInvalid(i) == trail[i + 1].kind = "raised" /\ trail[i + 1].label = "ValueError"

\* C2: parseToCents is determined by its input: it fails with InvalidAmount exactly
\* when the input is empty or missing, is no valid decimal, or rounds to a value
\* <= 0 at two fractional digits, and otherwise returns the rounded value times 100.
C2_ParseContract ==
    \A i \in 1..(Len(trail) - 1) :
        trail[i].kind = "raw" =>
            IF RefRejects(trail[i].raw)
            THEN ParsedInvalid(i)
            ELSE /\ ParsedOk(i)
                 /\ trail[i + 1].cents = PyInt(0, RefRounded(DecimalOf(trail[i].raw).val))

\* C3 as stated: for every valid decimal string with a value v > 0 that two decimal
\* places represent exactly, formatFromCents(parseToCents(s)) is v rendered with two
\* fractional digits; for every positive integer c, parseToCents(formatFromCents(c)) = c.
C3_RoundTripUnbounded ==
    /\ (trail # <<>> /\ trail[1].kind = "raw" /\ RoundTripInput(trail[1].raw)) =>
          /\ Len(trail) >= 2 => ParsedOk(1)
          /\ Len(trail) = 3 =>
                trail[3].raw.toks = RefRender(RefExactCents(DecimalOf(trail[1].raw).val))
    /\ (trail # <<>> /\ trail[1].kind = "cents" /\ Len(trail) = 3) =>
          trail[3].kind = "cents" /\ trail[3].cents = trail[1].cents

\* C3 amended: the round trip of a string holds for values v with 0 < v < 10^26, and
\* the round trip of an integer c for 0 < c < 10^28 (at most 28 digits).
C3_RoundTrip ==
    /\ (/\ trail # <<>> /\ trail[1].kind = "raw" /\ RoundTripInput(trail[1].raw)
        /\ FitsContext(DecimalOf(trail[1].raw).val)) =>
          /\ Len(trail) >= 2 => ParsedOk(1)
          /\ Len(trail) = 3 =>
                trail[3].raw.toks = RefRender(RefExactCents(DecimalOf(trail[1].raw).val))
    /\ (/\ trail # <<>> /\ trail[1].kind = "cents" /\ Len(trail) = 3
        /\ Len(trail[1].cents.digits) <= Prec) =>
          trail[3].kind = "cents" /\ trail[3].cents = trail[1].cents

\* "1.5" is parsed to 150 cents and rendered "1.50"
C3_Witness ==
    /\ Len(trail) = 3
    /\ trail[1].kind = "raw" /\ trail[1].raw = Str(<<"1", ".", "5">>)
    /\ trail[2].cents = PyInt(0, <<1, 5, 0>>)
    /\ trail[3].raw.toks = <<"1", ".", "5", "0">>

\* C4: classify returns "live" exactly when the error code is "incorrect_cvc" or
\* "insufficient_funds", and "false" for every other code and for an absent code.
C4_Classify ==
    (Len(trail) >= 2 /\ trail[1].kind = "card_error") =>
        LET e    == trail[1].err
            code == IF e.code \notin {None, ""} THEN e.code ELSE e.inner_code
        IN  /\ trail[2].kind = "label"
            /\ trail[2].label \in {"live", "false"}
            /\ trail[2].label = "live" <=> code \in {"incorrect_cvc", "insufficient_funds"}

\* a decline with code "insufficient_funds" is classified "live"
C4_Witness ==
    /\ Len(trail) = 2
    /\ trail[1].kind = "card_error" /\ trail[1].err.code = "insufficient_funds"
    /\ trail[2].label = "live"

(***************************************************************************)
(* The claims about the handlers (under Spec).                             *)
(***************************************************************************)
Done == pc = "done"

Responded(code) == resp.kind = "response" /\ resp.code = code

\* what _parse_amount_to_cents does on the request's amount
Parsed == ParseAmountToCents(req.data.amount)

\* C1: when the amount fails parseToCents, createPayment answers 400 with status
\* "false" and the validation message and does not call the processor; and every
\* create call of the processor carries parseToCents(amountRaw) >= 1, "usd", confirm.
C1_OnlyValidAmounts ==
    /\ (Done /\ req.route = "create" /\ parse_calls > 0 /\ ~Parsed.ok) =>
          /\ Responded(400)
          /\ resp.body = [status |-> "false", message |-> <<Parsed.msg>>]
          /\ calls = <<>>
    /\ \A i \in 1..Len(calls) :
          calls[i].op = "create" =>
              /\ Parsed.ok
              /\ calls[i].amount = Parsed.cents
              /\ calls[i].amount.sign = 0 /\ ~IsZero(calls[i].amount.digits)
              /\ calls[i].currency = "usd"
              /\ calls[i].confirm

\* C5: createPayment checks the secret, then payment_method_id, then the amount, and
\* the first failing check decides: without a secret it answers 500 and never parses;
\* else without payment_method_id it answers 400 whatever the amount is and never
\* parses; only then the amount is parsed; no failing check is followed by a call.
C5_CheckOrder ==
    (req.route = "create" /\ req.data.object) =>
        /\ Falsy(api_key) =>
              /\ parse_calls = 0 /\ calls = <<>>
              /\ Done => Responded(500)
        /\ (~Falsy(api_key) /\ Falsy(req.data.payment_method_id)) =>
              /\ parse_calls = 0 /\ calls = <<>>
              /\ Done => Responded(400)
        /\ (~Falsy(api_key) /\ ~Falsy(req.data.payment_method_id) /\ Done) =>
              parse_calls = 1
        /\ ~Parsed.ok => calls = <<>>

\* no secret, no payment_method_id and no valid amount: 500, and nothing was parsed
C5_Witness ==
    /\ Done /\ req.route = "create" /\ req.data.object
    /\ Falsy(api_key) /\ Falsy(req.data.payment_method_id) /\ ~Parsed.ok
    /\ Responded(500) /\ parse_calls = 0

\* C6: every 400 response has the body shape {status: "false", message}.
C6_BadRequestShape ==
    Responded(400) =>
        DOMAIN resp.body = {"status", "message"} /\ resp.body.status = "false"

\* C7: when the processor call raises a card decline, the response is 402 with status
\* classify(decline code), "live" or "false", and the processor's user message verbatim.
C7_CardDecline ==
    (Done /\ reply.kind = "card_error") =>
        /\ Responded(402)
        /\ DOMAIN resp.body = {"status", "message"}
        /\ resp.body.status = StatusFromCardError(reply.error)
        /\ resp.body.status \in {"live", "false"}
        /\ reply.error.code = "insufficient_funds" => resp.body.status = "live"
        /\ resp.body.message = reply.error.user_message

\* confirmPayment, declined with "insufficient_funds": 402, "live", the user message
C7_Witness ==
    /\ Done /\ req.route = "confirm"
    /\ reply.kind = "card_error" /\ reply.error.code = "insufficient_funds"
    /\ resp = Response(402, [status |-> "live", message |-> reply.error.user_message])

\* C8: no exception reaches the caller: every request ends in a 200, 400, 402 or 500
\* response, and a processor failure that is no decline in 500 with a generic message.
C8_NoExceptionEscapes ==
    Done =>
        /\ resp.kind = "response"
        /\ resp.code \in {200, 400, 402, 500}
        /\ reply.kind = "exception" =>
              /\ resp.code = 500
              /\ resp.body.message \in {<<"Unable to create payment intent.">>,
                                        <<"Unable to confirm payment intent.">>}

\* the amount shown on success: the cents sent (create), the cents reported (confirm)
ShownCents == IF req.route = "create" THEN calls[1].amount ELSE reply.amount

\* C9: when the processor call returns, status "requires_action" gives 200 with
\* {status, payment_intent_id, client_secret} and no message; any other status gives
\* 200 with status "true", the id, the client secret and a message with the formatted
\* amount: of the locally parsed cents in createPayment, of the reported amount in
\* confirmPayment.
C9_ProcessorReturned ==
    (Done /\ reply.kind = "intent") =>
        /\ Responded(200)
        /\ req.route = "create" => calls[1].amount = Parsed.cents
        /\ IF reply.status = "requires_action"
           THEN resp.body = [status |-> "requires_action", payment_intent_id |-> reply.id,
                             client_secret |-> reply.client_secret]
           ELSE resp.body =
                   [status |-> "true",
                    message |-> <<"your donation sucessfull ">>
                                    \o FormatAmountFromCents(ShownCents),
                    payment_intent_id |-> reply.id, client_secret |-> reply.client_secret]

\* createPayment of "25.00" while the processor reports 1 cent: the message shows 25.00
C9_Witness ==
    /\ Done /\ req.route = "create"
    /\ req.data.amount = Str(<<"2", "5", ".", "0", "0">>)
    /\ reply.kind = "intent" /\ reply.status = "succeeded" /\ reply.amount = PyInt(0, <<1>>)
    /\ resp.body.message = <<"your donation sucessfull ", "2", "5", ".", "0", "0">>

\* every local check of the request passes
LocalChecksPass ==
    /\ req.data.object
    /\ IF req.route = "create"
       THEN ~Falsy(api_key) /\ ~Falsy(req.data.payment_method_id) /\ Parsed.ok
       ELSE ~Falsy(req.data.payment_intent_id)

\* C10: nothing is retried: a request calls the processor at most once, whatever the
\* processor returns or raises; exactly once when every local check passes and never
\* when one fails; confirmPayment without payment_intent_id answers 400.
C10_NoRetry ==
    /\ Len(calls) <= 1
    /\ Done => Len(calls) = IF LocalChecksPass THEN 1 ELSE 0
    /\ (Done /\ req.route = "confirm" /\ req.data.object
            /\ Falsy(req.data.payment_intent_id)) => Responded(400)

\* the processor failed with an exception, and was called once
C10_Witness ==
    /\ Done /\ req.route = "create"
    /\ reply.kind = "exception"
    /\ Len(calls) = 1 /\ Responded(500)

====
